---- MODULE Spec2Model ----
(***************************************************************************)
(* Channel leader election of the cluster package (channelElectionManager) *)
(* modelled as a state machine: the bounded election queue, the single     *)
(* coordinator loop with its reused request buffer, the worker pool, the   *)
(* witness collection of one round and the per-request result delivery.    *)
(***************************************************************************)
EXTENDS Integers, Sequences, FiniteSets, TLC

(***************************************************************************)
(* Bounds of the model.                                                    *)
(***************************************************************************)
\* number of cluster nodes; node ids are 1..NumNodes
NumNodes == 3
\* number of election requests the callers get accepted over a run
MaxReqs == 2
\* capacity of electionC (make(chan electionReq, 1000) in the code, scaled down)
ElectionQueueCap == 1
\* number of requests queued on electionC before the coordinator loop runs
MaxQueued == 4
\* opts.MaxChannelElectionBatchLen
MaxChannelElectionBatchLen == 2
\* opts.ChannelElectionPoolSize
ChannelElectionPoolSize == 1

(***************************************************************************)
(* Configuration and data.                                                 *)
(***************************************************************************)
\* opts.ChannelMaxReplicaCount
ChannelMaxReplicaCount == 3
\* opts.NodeId, the local node
NodeId == 1

Nodes == 1..NumNodes

\* (channelId, channelType) of the two channels of the model
ChanA == <<"c1", 1>>
ChanB == <<"c1", 2>>

\* wkdb.ChannelClusterConfig values the callers pass in
CfgA == [ChannelId |-> ChanA[1], ChannelType |-> ChanA[2], Replicas |-> <<1, 2, 3>>,
         Term |-> 0, LeaderId |-> 0]
CfgB == [ChannelId |-> ChanB[1], ChannelType |-> ChanB[2], Replicas |-> <<2, 3>>,
         Term |-> 1, LeaderId |-> 2]
Cfgs == {CfgA, CfgB}

\* the zero value of wkdb.ChannelClusterConfig (electionResp.cfg of an error response)
ZeroCfg == [ChannelId |-> "", ChannelType |-> 0, Replicas |-> <<>>, Term |-> 0, LeaderId |-> 0]

\* electionReq{ch, cfg, resultC}; resultC is identified with the request's id
ElectionReq(cfg) == [ch |-> <<cfg.ChannelId, cfg.ChannelType>>, cfg |-> cfg]
NoReq == [ch |-> <<"", 0>>, cfg |-> ZeroCfg]

\* electionResp{cfg, err}
ErrResp(e) == [err |-> e, cfg |-> ZeroCfg]
OkResp(cfg) == [err |-> "nil", cfg |-> cfg]
NoResp == [err |-> "none", cfg |-> ZeroCfg]

\* (Term, LogIndex) a replica can report for a channel
LogVals == {<<0, 0>>, <<0, 1>>, <<1, 0>>}

\* the log states of the replicas a round can meet: for every node, the
\* (Term, LogIndex) of its log of ChanA; its log of ChanB is that of the next node
LogStates ==
    {[p \in Nodes \X {ChanA, ChanB} |->
        IF p[2] = ChanA THEN f[p[1]] ELSE f[(p[1] % NumNodes) + 1]] : f \in [Nodes -> LogVals]}

\* capacities a caller may give the result channel it creates
ResultCCaps == {0, 1}

Range(s) == {s[k] : k \in 1..Len(s)}

\* the nodes by ascending id
Ascending == [k \in 1..NumNodes |-> k]

\* the orders in which a Go map with key set S can be iterated
Perms(S) == {p \in [1..Cardinality(S) -> S] : \A a, b \in 1..Cardinality(S) : p[a] = p[b] => a = b}

VARIABLES
    stopped,     \* stopper.ShouldStop() is closed
    electionC,   \* the election queue: ids of the queued requests, oldest first
    reqs,        \* the requests accepted so far, by id
    reader,      \* per request: what its requester does with resultC, and what it got
    resultC,     \* per request: number of responses buffered in its result channel
    resultCap,   \* capacity of the result channels
    loop,        \* the coordinator loop: pc, reqLen, len(electionReqs)
    buf,         \* backing array of the loop's electionReqs slice
    tasks,       \* election rounds submitted to the pool and not finished
    call,        \* return value of the last addElectionReq call
    rejected     \* requests of batches whose pool submission failed

electionVars == <<stopped, electionC, reqs, reader, resultC, resultCap, loop, buf, tasks, call, rejected>>

(***************************************************************************)
(* The election rule of one request.                                       *)
(***************************************************************************)
\* quorum() without the + 1
quorumHalf == ChannelMaxReplicaCount \div 2

\* quorum(): int(ChannelMaxReplicaCount/2) + 1
quorum == (ChannelMaxReplicaCount \div 2) + 1

\* the test of line 126: a response belongs to the request's channel
MatchesChannel(req, resp) ==
    req.ch[1] = resp.ChannelId /\ req.ch[2] = resp.ChannelType

\* the replicaChannelLastLogInfoResponse values one map entry adds to lastInfoResps
Matching(req, replicaId, infos) ==
    LET hits == SelectSeq(infos[replicaId], LAMBDA resp : MatchesChannel(req, resp))
    IN  [j \in 1..Len(hits) |->
            [replicaId |-> replicaId, ChannelId |-> hits[j].ChannelId,
             ChannelType |-> hits[j].ChannelType, LogIndex |-> hits[j].LogIndex,
             Term |-> hits[j].Term]]

\* lastInfoResps of lines 121-133, the map being iterated in the order ord
RECURSIVE LastInfoResps(_, _, _)
LastInfoResps(req, infos, ord) ==
    IF ord = <<>> THEN <<>>
    ELSE Matching(req, Head(ord), infos) \o LastInfoResps(req, infos, Tail(ord))

\* the loop body of channelLeaderIDByLogInfo, from element k on
RECURSIVE LeaderScan(_, _, _, _, _)
LeaderScan(resps, k, leaderID, maxIndex, maxTerm) ==
    IF k > Len(resps) THEN leaderID
    ELSE IF resps[k].Term > maxTerm
         THEN LeaderScan(resps, k + 1, resps[k].replicaId, resps[k].LogIndex, resps[k].Term)
         ELSE IF resps[k].Term = maxTerm /\ resps[k].LogIndex > maxIndex
              THEN LeaderScan(resps, k + 1, resps[k].replicaId, resps[k].LogIndex, maxTerm)
              ELSE LeaderScan(resps, k + 1, leaderID, maxIndex, maxTerm)

\* channelLeaderIDByLogInfo comparing the log index before the term
RECURSIVE LeaderScanIndexFirst(_, _, _, _, _)
LeaderScanIndexFirst(resps, k, leaderID, maxIndex, maxTerm) ==
    IF k > Len(resps) THEN leaderID
    ELSE IF resps[k].LogIndex > maxIndex
         THEN LeaderScanIndexFirst(resps, k + 1, resps[k].replicaId, resps[k].LogIndex, resps[k].Term)
         ELSE IF resps[k].LogIndex = maxIndex /\ resps[k].Term > maxTerm
              THEN LeaderScanIndexFirst(resps, k + 1, resps[k].replicaId, maxIndex, resps[k].Term)
              ELSE LeaderScanIndexFirst(resps, k + 1, leaderID, maxIndex, maxTerm)

channelLeaderIDIndexFirst(resps) == LeaderScanIndexFirst(resps, 1, 0, 0, 0)

channelLeaderIDByLogInfo(resps) == LeaderScan(resps, 1, 0, 0, 0)

\* lines 156-158 without cfg.Term++
NewCfgKeepTerm(cfg, newLeaderId) == [cfg EXCEPT !.LeaderId = newLeaderId]

\* lines 156-158: cfg := req.cfg; cfg.Term++; cfg.LeaderId = newLeaderId
\* (input terms stay far below the width of the term counter)
NewCfg(cfg, newLeaderId) ==
    [cfg EXCEPT !.Term = @ + 1, !.LeaderId = newLeaderId]

\* lines 134-165: the response the round sends for req, given its lastInfoResps
ElectionResp(req, lastInfoResps) ==
    IF Len(lastInfoResps) < quorum
    THEN ErrResp("ErrNotEnoughReplicas")
    ELSE LET newLeaderId == channelLeaderIDByLogInfo(lastInfoResps)
         IN  IF newLeaderId = 0
             THEN ErrResp("ErrNoLeader")
             ELSE OkResp(NewCfg(req.cfg, newLeaderId))

(***************************************************************************)
(* Witness collection: requestChannelLastLogInfos.                         *)
(***************************************************************************)
\* replicaReqMap[replicaId] of lines 198-203: the requests listing the node
ReplicaReqs(batch, replicaId) ==
    SelectSeq(batch, LAMBDA r : replicaId \in Range(r.cfg.Replicas))

\* what happens to one entry of replicaReqMap in a round
\*   offline   NodeOnline(replicaId) is false
\*   local     the local node, every LastIndexAndTerm read succeeds
\*   readerr   the local node, a LastIndexAndTerm read fails
\*   nohandle  nodeManager.node(replicaId) is nil
\*   rpcerr    requestChannelLastLogInfo returns an error or times out
\*   ok        requestChannelLastLogInfo returns its responses
\*   dropped   a remote node of a round that returned at line 220 (readerr): the
\*             entry was reached or not, its call made or not; the map is dropped
\*   none      the node is no replica of any request of the batch
Statuses == {"offline", "local", "readerr", "nohandle", "rpcerr", "ok", "dropped", "none"}

StatusOk(batch, st) ==
    \A n \in Nodes :
        IF ReplicaReqs(batch, n) = <<>> THEN st[n] = "none"
        ELSE IF n = NodeId THEN st[n] \in {"offline", "local", "readerr"}
        ELSE IF st[NodeId] = "readerr" THEN st[n] = "dropped"
        ELSE st[n] \in {"offline", "nohandle", "rpcerr", "ok"}

\* the keys of channelLastLogInfosMap
InfoKeys(st) == {n \in Nodes : st[n] \in {"local", "ok"}}

\* lines 216-232: the local node answers every request from MessageLogStorage
LocalAnswers(rr, replicaId, lg) ==
    [j \in 1..Len(rr) |->
        [ChannelId |-> rr[j].ch[1], ChannelType |-> rr[j].ch[2],
         LogIndex |-> lg[<<replicaId, rr[j].ch>>][2], Term |-> lg[<<replicaId, rr[j].ch>>][1]]]

\* node.requestChannelLastLogInfo on the remote side: one response per entry of
\* the request set, in the same order
RemoteAnswers(logReqs, replicaId, lg) ==
    [j \in 1..Len(logReqs) |->
        [ChannelId |-> logReqs[j].ChannelId, ChannelType |-> logReqs[j].ChannelType,
         LogIndex |-> lg[<<replicaId, <<logReqs[j].ChannelId, logReqs[j].ChannelType>>>>][2],
         Term |-> lg[<<replicaId, <<logReqs[j].ChannelId, logReqs[j].ChannelType>>>>][1]]]

\* lines 235-243: channelLastLogInfoReqs built for one remote node
ChannelLastLogInfoReqs(rr) ==
    [j \in 1..Len(rr) |-> [ChannelId |-> rr[j].ch[1], ChannelType |-> rr[j].ch[2]]]

\* channelLastLogInfosMap[replicaId] when the round ends (<<>>: no entry)
NodeInfos(batch, replicaId, status, lg) ==
    CASE status = "local" -> LocalAnswers(ReplicaReqs(batch, replicaId), replicaId, lg)
      [] status = "ok" ->
            RemoteAnswers(ChannelLastLogInfoReqs(ReplicaReqs(batch, replicaId)), replicaId, lg)
      [] OTHER -> <<>>

\* requestChannelLastLogInfos also failing when a remote call fails
\* (return err instead of return nil at line 256)
CollectFailsOnRpc(st) == \E n \in Nodes : st[n] \in {"readerr", "rpcerr"}

\* requestChannelLastLogInfos returns an error: only the return of line 220 does
CollectFails(st) == st[NodeId] = "readerr"

\* requestChannelLastLogInfo called for the local node as for a remote one
RpcCallsAlsoLocal(status) == IF status \in {"rpcerr", "ok", "local"} THEN 1 ELSE 0

\* number of requestChannelLastLogInfo calls a node receives in the round
RpcCalls(status) == IF status \in {"rpcerr", "ok"} THEN 1 ELSE 0

\* the remote nodes of a round that returned at line 220: the goroutine of such
\* a node was started before the return, and made its call, or it was not
Dropped(st) == {n \in Nodes : st[n] = "dropped"}

(***************************************************************************)
(* The message log store (pkg/wkdb/message.go): data.                      *)
(***************************************************************************)
\* len(wk.dbs): the number of shards
NumShards == 2
\* the highest messageSeq an append of the model reaches
MaxSeq == 3
\* the number of messages appended over a behaviour (messageId is unique)
MaxMessages == 3
\* the longest msgs argument of one append call
MaxAppendLen == 2
\* the highest messageSeq argument of TruncateLogTo
MaxTruncate == 4
\* uint64 is scaled to SeqBits bits: arithmetic on sequence numbers wraps at U64
SeqBits == 4
\* the highest limit argument of a range load
MaxLimit == 3
\* the highest startMessageSeq / endMessageSeq argument below math.MaxUint64
MaxSeqArg == 5
\* the highest limitSize argument of LoadNextRangeMsgsForSize
MaxLimitSize == 7
\* the highest Limit and the highest CurrentPage of a search request
MaxSearchLimit == 2
MaxPage == 2

U64 == 2 ^ SeqBits

\* math.MaxUint64
MaxUint64 == U64 - 1

\* uint64 addition and subtraction
U64Add(a, b) == (a + b) % U64
U64Sub(a, b) == (a - b + U64) % U64

\* the channels of the store, <<channelId, channelType>>
ChX == <<"x", 1>>
ChY == <<"y", 1>>
DBChannels == {ChX, ChY}

\* key.ChannelIdToNum: the 64-bit number of a channel (a fixed hash)
ChannelIdToNum(c) == CASE c = ChX -> 2 [] c = ChY -> 3

\* channelDbIndex, line 59
channelDbIndex(c) == ChannelIdToNum(c) % NumShards

Shards == 0..(NumShards - 1)

\* the columns of a message in key order: the order writeMessage sets them
Columns ==
    <<"Header", "Setting", "Expire", "MessageId", "MessageSeq", "ClientMsgNo",
      "Timestamp", "ChannelId", "ChannelType", "Topic", "FromUid", "Payload", "Term">>

\* Message{}: the zero value; Framer stands for its fixed-header byte
EmptyMessage ==
    [Framer |-> 0, Setting |-> 0, Expire |-> 0, MessageID |-> 0, MessageSeq |-> 0,
     ClientMsgNo |-> "", Timestamp |-> 0, ChannelID |-> "", ChannelType |-> 0,
     Topic |-> "", FromUID |-> "", Payload |-> "", Term |-> 0]

\* IsEmptyMessage: a message without messageId (stored messages have one)
IsEmptyMessage(m) == m.MessageID = 0

\* a message the caller appends to channel c with sequence number seq; the
\* messages with an odd messageId carry a flag in the header byte and come
\* from "u1", the others from "u2"; the first has the clientMsgNo "n1", the
\* others "n2"; the second has the longer payload
NewMessage(c, seq, id) ==
    [Framer |-> id % 2, Setting |-> 1, Expire |-> 1, MessageID |-> id, MessageSeq |-> seq,
     ClientMsgNo |-> IF id = 1 THEN "n1" ELSE "n2", Timestamp |-> 1,
     ChannelID |-> c[1], ChannelType |-> c[2], Topic |-> "t",
     FromUID |-> IF id % 2 = 1 THEN "u1" ELSE "u2",
     Payload |-> IF id = 2 THEN "pp" ELSE "p", Term |-> 1]

\* Message.Size(): the bytes of the encoded message, here two bytes of fixed
\* fields and the payload
MessageSize(m) ==
    2 + (CASE m.Payload = "pp" -> 2 [] m.Payload = "p" -> 1 [] OTHER -> 0)

VARIABLES
    primary,         \* the column rows: per channel, messageSeq -> the message whose 13 rows are stored
    lastMessageSeq,  \* the value under the channel-last-seq key, 0 when absent
    messageIdIndex,  \* per shard, messageId -> primary handle <<channel, messageSeq>>
    secondIndex,     \* per shard, the keys of the fromUid and clientMsgNo indexes
    nextMessageId,   \* the next messageId the caller uses
    dbErr            \* the error the last call of the store returned

dbVars == <<primary, lastMessageSeq, messageIdIndex, secondIndex, nextMessageId, dbErr>>

\* the elements of a finite set of numbers in ascending order
SortedSeq(S) ==
    [i \in 1..Cardinality(S) |-> CHOOSE x \in S : Cardinality({y \in S : y < x}) = i - 1]

\* the channels of a set in the order of their numbers
ChannelOrder(S) ==
    LET nums == SortedSeq({ChannelIdToNum(c) : c \in S})
    IN  [j \in 1..Len(nums) |-> CHOOSE c \in S : ChannelIdToNum(c) = nums[j]]

\* writeMessage, lines 814-888: the value stored under the column key
ColumnValue(m, col) ==
    CASE col = "Header" -> m.Framer
      [] col = "Setting" -> m.Setting
      [] col = "Expire" -> m.Expire
      [] col = "MessageId" -> m.MessageID
      [] col = "MessageSeq" -> m.MessageSeq
      [] col = "ClientMsgNo" -> m.ClientMsgNo
      [] col = "Timestamp" -> m.Timestamp
      [] col = "ChannelId" -> m.ChannelID
      [] col = "ChannelType" -> m.ChannelType
      [] col = "Topic" -> m.Topic
      [] col = "FromUid" -> m.FromUID
      [] col = "Payload" -> m.Payload
      [] col = "Term" -> m.Term

\* the switch of lines 690-719: one column row read into preMessage
\* (the MessageSeq column has no case)
SetColumn(pre, col, v) ==
    CASE col = "Header" -> [pre EXCEPT !.Framer = v]
      [] col = "Setting" -> [pre EXCEPT !.Setting = v]
      [] col = "Expire" -> [pre EXCEPT !.Expire = v]
      [] col = "MessageId" -> [pre EXCEPT !.MessageID = v]
      [] col = "ClientMsgNo" -> [pre EXCEPT !.ClientMsgNo = v]
      [] col = "Timestamp" -> [pre EXCEPT !.Timestamp = v]
      [] col = "ChannelId" -> [pre EXCEPT !.ChannelID = v]
      [] col = "ChannelType" -> [pre EXCEPT !.ChannelType = v]
      [] col = "Topic" -> [pre EXCEPT !.Topic = v]
      [] col = "FromUid" -> [pre EXCEPT !.FromUID = v]
      [] col = "Payload" -> [pre EXCEPT !.Payload = v]
      [] col = "Term" -> [pre EXCEPT !.Term = v]
      [] OTHER -> pre

\* the rows an iterator with LowerBound (c, lo) and UpperBound (c, hi) yields,
\* in key order: by messageSeq, then by column
IterRows(c, lo, hi) ==
    LET ss == SortedSeq({s \in DOMAIN primary[c] : lo <= s /\ s < hi})
        nc == Len(Columns)
    IN  [j \in 1..(Len(ss) * nc) |->
            LET s == ss[((j - 1) \div nc) + 1]
                col == Columns[((j - 1) % nc) + 1]
            IN  [seq |-> s, col |-> col, val |-> ColumnValue(primary[c][s], col)]]

(***************************************************************************)
(* The message log store: reading.                                         *)
(***************************************************************************)
\* the loop without the flush of lines 722-727 at the end of the scan
RECURSIVE IterLoopNoFlush(_, _, _, _, _, _, _, _, _)
IterLoopNoFlush(rows, pos, limit, cont, size, preMessageSeq, preMessage, hasData, out) ==
    IF pos + 1 > Len(rows)
    THEN out
    ELSE LET r == rows[pos + 1]
             flush == preMessageSeq # r.seq /\ preMessageSeq # 0
             size2 == IF flush THEN size + 1 ELSE size
             out2 == IF flush THEN Append(out, preMessage) ELSE out
             base == IF preMessageSeq # r.seq
                     THEN [EmptyMessage EXCEPT !.MessageSeq = r.seq]
                     ELSE preMessage
         IN  IF flush /\ (~cont \/ (limit # 0 /\ size2 >= limit))
             THEN out2
             ELSE IterLoopNoFlush(rows, pos + 1, limit, cont, size2, r.seq,
                                  SetColumn(base, r.col, r.val), TRUE, out2)

\* the loop of lines 655-721 and the flush of lines 722-727. pos is the row the
\* iterator stands on; the loop advances it before it reads a row. cont is what
\* iterFnc returns; out lists the messages handed to iterFnc
RECURSIVE IterLoop(_, _, _, _, _, _, _, _, _)
IterLoop(rows, pos, limit, cont, size, preMessageSeq, preMessage, hasData, out) ==
    IF pos + 1 > Len(rows)
    THEN IF hasData THEN Append(out, preMessage) ELSE out
    ELSE LET r == rows[pos + 1]
             flush == preMessageSeq # r.seq /\ preMessageSeq # 0
             size2 == IF flush THEN size + 1 ELSE size
             out2 == IF flush THEN Append(out, preMessage) ELSE out
             base == IF preMessageSeq # r.seq
                     THEN [EmptyMessage EXCEPT !.MessageSeq = r.seq]
                     ELSE preMessage
         IN  IF flush /\ (~cont \/ (limit # 0 /\ size2 >= limit))
             THEN out2
             ELSE IterLoop(rows, pos + 1, limit, cont, size2, r.seq,
                           SetColumn(base, r.col, r.val), TRUE, out2)

\* iteratorChannelMessages (forward): nothing when iter.First() finds no row
iteratorChannelMessages(rows, limit, cont) ==
    IF rows = <<>> THEN <<>>
    ELSE IterLoop(rows, 1, limit, cont, 0, 0, EmptyMessage, FALSE, <<>>)

\* GetChannelLastMessageSeq: 0 when the key is absent
GetChannelLastMessageSeq(c) == lastMessageSeq[c]

\* lines 206-224: the lower bound of LoadPrevRangeMsgs
PrevMinSeq(startMessageSeq, endMessageSeq, limit) ==
    IF endMessageSeq = 0
    THEN IF startMessageSeq < limit THEN 1
         ELSE U64Add(U64Sub(startMessageSeq, limit), 1)
    ELSE IF U64Sub(startMessageSeq, endMessageSeq) > limit
         THEN U64Add(U64Sub(startMessageSeq, limit), 1)
         ELSE U64Add(endMessageSeq, 1)

\* the upper bound of a range load left as it was asked for
UnclampedMaxSeq(maxSeq, lastSeq) == maxSeq

\* lines 232-234 and 268-270: the upper bound clamped to lastSeq + 1
ClampMaxSeq(maxSeq, lastSeq) == IF maxSeq > lastSeq THEN U64Add(lastSeq, 1) ELSE maxSeq

LoadPrevRangeMsgs(c, startMessageSeq, endMessageSeq, limit) ==
    IF startMessageSeq = 0 \/ (endMessageSeq # 0 /\ endMessageSeq > startMessageSeq)
    THEN [err |-> "ErrInvalidRange", msgs |-> <<>>]
    ELSE LET minSeq == PrevMinSeq(startMessageSeq, endMessageSeq, limit)
             maxSeq == ClampMaxSeq(U64Add(startMessageSeq, 1), GetChannelLastMessageSeq(c))
         IN  [err |-> "nil",
              msgs |-> iteratorChannelMessages(IterRows(c, minSeq, maxSeq), limit, TRUE)]

LoadNextRangeMsgs(c, startMessageSeq, endMessageSeq, limit) ==
    LET minSeq == startMessageSeq
        maxSeq == ClampMaxSeq(IF endMessageSeq = 0 THEN MaxUint64 ELSE endMessageSeq,
                              GetChannelLastMessageSeq(c))
    IN  [err |-> "nil",
         msgs |-> iteratorChannelMessages(IterRows(c, minSeq, maxSeq), limit, TRUE)]

\* LoadLastMsgs, lines 317-327: nothing for a last sequence of 0, else the
\* limit messages up to the last sequence
LoadLastMsgs(c, limit) ==
    LET lastSeq == GetChannelLastMessageSeq(c)
    IN  IF lastSeq = 0 THEN [err |-> "nil", msgs |-> <<>>]
        ELSE LoadPrevRangeMsgs(c, lastSeq, 0, limit)

\* parseChannelMessagesWithLimitSize, lines 742-802: the rows from pos on, one
\* by one, starting at the first; a message is appended when the first row of
\* the next one is met, and the last one after the loop
RECURSIVE ParseLoop(_, _, _, _, _, _, _)
ParseLoop(rows, pos, limitSize, size, preMessageSeq, preMessage, msgs) ==
    IF pos > Len(rows)
    THEN IF pos > 1 THEN Append(msgs, preMessage) ELSE msgs
    ELSE LET r == rows[pos]
             flush == preMessageSeq # r.seq /\ preMessageSeq # 0
             size2 == IF flush THEN size + MessageSize(preMessage) ELSE size
             msgs2 == IF flush THEN Append(msgs, preMessage) ELSE msgs
             base == IF preMessageSeq # r.seq
                     THEN [EmptyMessage EXCEPT !.MessageSeq = r.seq]
                     ELSE preMessage
         IN  IF flush /\ limitSize # 0 /\ size2 >= limitSize THEN msgs2
             ELSE ParseLoop(rows, pos + 1, limitSize, size2, r.seq,
                            SetColumn(base, r.col, r.val), msgs2)

parseChannelMessagesWithLimitSize(rows, limitSize) ==
    ParseLoop(rows, 1, limitSize, 0, 0, EmptyMessage, <<>>)

\* LoadNextRangeMsgsForSize, lines 351-365: the bounds are the arguments, with
\* math.MaxUint64 for endMessageSeq = 0
LoadNextRangeMsgsForSize(c, startMessageSeq, endMessageSeq, limitSize) ==
    LET minSeq == startMessageSeq
        maxSeq == IF endMessageSeq = 0 THEN MaxUint64 ELSE endMessageSeq
    IN  [err |-> "nil",
         msgs |-> parseChannelMessagesWithLimitSize(IterRows(c, minSeq, maxSeq), limitSize)]

\* the message a scan whose iterFnc keeps its argument and returns false leaves
ScanOne(rows, limit) ==
    LET out == iteratorChannelMessages(rows, limit, FALSE)
        msg == IF out = <<>> THEN EmptyMessage ELSE out[Len(out)]
    IN  IF IsEmptyMessage(msg)
        THEN [err |-> "ErrNotFound", msg |-> EmptyMessage]
        ELSE [err |-> "nil", msg |-> msg]

LoadMsg(c, seq) == ScanOne(IterRows(c, seq, U64Add(seq, 1)), 1)

\* GetMessage: the first shard whose messageId index has the key answers
GetMessage(messageId) ==
    LET has == {s \in Shards : messageId \in DOMAIN messageIdIndex[s]}
    IN  IF has = {} THEN [err |-> "ErrNotFound", msg |-> EmptyMessage]
        ELSE LET s == CHOOSE x \in has : \A y \in has : x <= y
                 h == messageIdIndex[s][messageId]
             IN  ScanOne(IterRows(h[1], h[2], U64Add(h[2], 1)), 0)

(***************************************************************************)
(* The message log store: searching.                                       *)
(***************************************************************************)
\* the search requests of the model: MessageSearchReq
SearchReqs ==
    [MessageId : {0, 1}, ChannelId : {"", "x"}, ChannelType : {0, 1},
     FromUid : {"", "u1"}, ClientMsgNo : {"", "n1", "n2"}, Payload : {"", "pp"},
     Limit : 1..MaxSearchLimit, CurrentPage : 1..MaxPage]

\* bytes.Contains(payload, sub) on the payloads of the model
BytesContains(payload, sub) ==
    \/ sub = ""
    \/ payload = sub
    \/ payload = "pp" /\ sub = "p"

\* a sequence back to front
Reverse(q) == [j \in 1..Len(q) |-> q[Len(q) + 1 - j]]

\* lines 482-499: the index searchMessageByIndex scans, fromUid before
\* clientMsgNo, and the value it looks up; index "" when neither is set
SearchIndex(req) ==
    IF req.FromUid # "" THEN [index |-> "FromUid", val |-> req.FromUid]
    ELSE IF req.ClientMsgNo # "" THEN [index |-> "ClientMsgNo", val |-> req.ClientMsgNo]
    ELSE [index |-> "", val |-> ""]

\* the position of an index key among those of one indexed value: the
\* primary handle, channel number before messageSeq
HandleOrder(e) == ChannelIdToNum(e.ch) * U64 + e.seq

\* line 510: the keys of one indexed value from the last to the first
IndexEntriesDesc(sh, ix) ==
    LET es == {e \in secondIndex[sh] : e.index = ix.index /\ e.val = ix.val}
        ks == Reverse(SortedSeq({HandleOrder(e) : e \in es}))
    IN  [j \in 1..Len(ks) |-> CHOOSE e \in es : HandleOrder(e) = ks[j]]

\* lines 517-531: the message the scan of the columns of one primary handle
\* leaves, Message{} when it calls iterFnc for none
IndexedMessage(e) ==
    LET out == iteratorChannelMessages(IterRows(e.ch, e.seq, U64Add(e.seq, 1)), 0, FALSE)
    IN  IF out = <<>> THEN EmptyMessage ELSE out[Len(out)]

\* lines 561-592: iterFnc of SearchMessages on the message m, acc the
\* currentSize and the msgs it has so far; cont is what it returns
IterFnc(req, acc, m) ==
    IF \/ req.ChannelId # "" /\ m.ChannelID # req.ChannelId
       \/ req.ChannelType # 0 /\ req.ChannelType # m.ChannelType
       \/ req.FromUid # "" /\ m.FromUID # req.FromUid
       \/ req.Payload # "" /\ ~BytesContains(m.Payload, req.Payload)
       \/ req.MessageId > 0 /\ req.MessageId # m.MessageID
    THEN [cont |-> TRUE, currentSize |-> acc.currentSize, msgs |-> acc.msgs]
    ELSE IF acc.currentSize > req.Limit * req.CurrentPage
    THEN [cont |-> FALSE, currentSize |-> acc.currentSize, msgs |-> acc.msgs]
    ELSE LET size == acc.currentSize + 1
         IN  [cont |-> TRUE, currentSize |-> size,
              msgs |-> IF size > (req.CurrentPage - 1) * req.Limit
                          /\ size <= req.CurrentPage * req.Limit
                       THEN Append(acc.msgs, m) ELSE acc.msgs]

\* a loop that hands the messages ms to iterFnc one by one and breaks when it
\* returns false
RECURSIVE FeedIterFnc(_, _, _, _)
FeedIterFnc(req, acc, ms, j) ==
    IF j > Len(ms) THEN acc
    ELSE LET r == IterFnc(req, acc, ms[j])
         IN  IF r.cont THEN FeedIterFnc(req, r, ms, j + 1) ELSE r

\* the rows of the channels cs, one channel after the other
RECURSIVE RowsOfChannels(_, _)
RowsOfChannels(cs, j) ==
    IF j > Len(cs) THEN <<>>
    ELSE IterRows(cs[j], 0, MaxUint64) \o RowsOfChannels(cs, j + 1)

\* lines 606-609: the rows between NewMessageSearchLowKeWith and
\* NewMessageSearchHighKeWith in the shard sh: those of the channel of the
\* request, those of every channel when it names none
SearchRows(req, sh) ==
    RowsOfChannels(ChannelOrder({c \in DBChannels :
                        /\ channelDbIndex(c) = sh
                        /\ req.ChannelId = "" \/ c = <<req.ChannelId, req.ChannelType>>}), 1)

\* lines 594-616, one db: the index if the request has an indexed field, else
\* the rows of the shard from the last to the first
SearchShard(req, sh, acc) ==
    LET ix == SearchIndex(req)
        es == IndexEntriesDesc(sh, ix)
        ms == IF ix.index # ""
              THEN [j \in 1..Len(es) |-> IndexedMessage(es[j])]
              ELSE iteratorChannelMessages(Reverse(SearchRows(req, sh)), 0, TRUE)
    IN  FeedIterFnc(req, acc, ms, 1)

RECURSIVE SearchShards(_, _, _)
SearchShards(req, sh, acc) ==
    IF sh >= NumShards THEN acc
    ELSE SearchShards(req, sh + 1, SearchShard(req, sh, acc))

\* SearchMessages(req), lines 545-622
SearchMessages(req) ==
    IF req.MessageId > 0
    THEN LET r == GetMessage(req.MessageId)
         IN  [err |-> "nil", msgs |-> IF r.err = "ErrNotFound" THEN <<>> ELSE <<r.msg>>]
    ELSE LET acc == SearchShards(req, 0, [cont |-> TRUE, currentSize |-> 0, msgs |-> <<>>])
         IN  [err |-> "nil",
              msgs |-> IF req.Limit > 0 /\ Len(acc.msgs) > req.Limit
                       THEN SubSeq(acc.msgs, 1, req.Limit) ELSE acc.msgs]

(***************************************************************************)
(* The message log store: writing.                                         *)
(***************************************************************************)
StoreInit ==
    /\ primary = [c \in DBChannels |-> <<>>]
    /\ lastMessageSeq = [c \in DBChannels |-> 0]
    /\ messageIdIndex = [s \in Shards |-> <<>>]
    /\ secondIndex = [s \in Shards |-> {}]
    /\ nextMessageId = 1
    /\ dbErr = "nil"

\* the msgs the caller passes: n messages numbered lastSeq+1, lastSeq+2, ...
CallerMsgs(c, n, firstId) ==
    [j \in 1..n |-> NewMessage(c, lastMessageSeq[c] + j, firstId + j - 1)]

\* writeMessage for every message of msgs: the column rows
PutRows(p, c, msgs) ==
    LET old == p[c]
        new == {msgs[j].MessageSeq : j \in 1..Len(msgs)}
    IN  [p EXCEPT ![c] =
            [s \in (DOMAIN old) \cup new |->
                IF s \in new
                THEN msgs[CHOOSE j \in 1..Len(msgs) :
                            /\ msgs[j].MessageSeq = s
                            /\ \A i \in 1..Len(msgs) : msgs[i].MessageSeq = s => i <= j]
                ELSE old[s]]]

\* writeMessage, line 900: the messageId index entries
PutIndex(ix, c, msgs) ==
    LET old == ix[channelDbIndex(c)]
        new == {msgs[j].MessageID : j \in 1..Len(msgs)}
    IN  [ix EXCEPT ![channelDbIndex(c)] =
            [id \in (DOMAIN old) \cup new |->
                IF id \in new
                THEN LET j == CHOOSE j \in 1..Len(msgs) :
                            /\ msgs[j].MessageID = id
                            /\ \A i \in 1..Len(msgs) : msgs[i].MessageID = id => i <= j
                     IN  <<c, msgs[j].MessageSeq>>
                ELSE old[id]]]

\* writeMessage, lines 895 and 905: the keys of the fromUid index and of the
\* clientMsgNo index, each the indexed value followed by the primary handle
PutSecondIndex(ix2, c, msgs) ==
    [ix2 EXCEPT ![channelDbIndex(c)] =
        @ \cup {[index |-> "FromUid", val |-> msgs[j].FromUID,
                 ch |-> c, seq |-> msgs[j].MessageSeq] : j \in 1..Len(msgs)}
          \cup {[index |-> "ClientMsgNo", val |-> msgs[j].ClientMsgNo,
                 ch |-> c, seq |-> msgs[j].MessageSeq] : j \in 1..Len(msgs)}]

\* writeMessagesBatch taking the sequence number of the first message
FirstSeqOf(last, msgs) == IF msgs = <<>> THEN last ELSE msgs[1].MessageSeq

\* the value the calls of setChannelLastMessageSeq of one append leave
LastSeqOf(last, msgs) == IF msgs = <<>> THEN last ELSE msgs[Len(msgs)].MessageSeq

\* how a call of AppendMessages ends: it returns nil, the error of
\* IncMessageCount (line 47) or the error of a Set or of the Commit
AppendEnds == {"nil", "ErrIncMessageCount", "ErrWrite"}

\* AppendMessages writing each message as it goes instead of in one batch: the
\* rows of the first message stay when the call fails
AppendMessagesUnbatched(c, n, err) ==
    LET msgs == CallerMsgs(c, n, nextMessageId)
    IN  /\ lastMessageSeq[c] + n <= MaxSeq
        /\ nextMessageId + n - 1 <= MaxMessages
        /\ dbErr' = err
        /\ IF err = "nil"
           THEN /\ primary' = PutRows(primary, c, msgs)
                /\ messageIdIndex' = PutIndex(messageIdIndex, c, msgs)
                /\ secondIndex' = PutSecondIndex(secondIndex, c, msgs)
                /\ lastMessageSeq' = [lastMessageSeq EXCEPT ![c] = LastSeqOf(@, msgs)]
                /\ nextMessageId' = nextMessageId + n
           ELSE /\ primary' = PutRows(primary, c, SubSeq(msgs, 1, IF n > 0 THEN 1 ELSE 0))
                /\ UNCHANGED <<lastMessageSeq, messageIdIndex, secondIndex, nextMessageId>>
        /\ UNCHANGED electionVars

\* AppendMessages(channelId, channelType, msgs): one batch, committed or not
AppendMessages(c, n, err) ==
    LET msgs == CallerMsgs(c, n, nextMessageId)
    IN  /\ lastMessageSeq[c] + n <= MaxSeq
        /\ nextMessageId + n - 1 <= MaxMessages
        /\ dbErr' = err
        /\ IF err = "nil"
           THEN /\ primary' = PutRows(primary, c, msgs)
                /\ messageIdIndex' = PutIndex(messageIdIndex, c, msgs)
                /\ secondIndex' = PutSecondIndex(secondIndex, c, msgs)
                /\ lastMessageSeq' = [lastMessageSeq EXCEPT ![c] = LastSeqOf(@, msgs)]
                /\ nextMessageId' = nextMessageId + n
           ELSE UNCHANGED <<primary, lastMessageSeq, messageIdIndex, secondIndex, nextMessageId>>
        /\ UNCHANGED electionVars

\* appendReqs of AppendMessagesBatch: one request of one message for every channel of S
BatchReqs(S) ==
    LET cs == ChannelOrder(S)
    IN  [j \in 1..Len(cs) |->
            [ch |-> cs[j],
             Messages |-> CallerMsgs(cs[j], 1, nextMessageId + j - 1)]]

\* lines 84-88: the shards of dbMap
BatchShards(S) == {channelDbIndex(c) : c \in S}

\* writeMessagesBatch for the shards that commit
RECURSIVE WriteReqs(_, _, _, _)
WriteReqs(db, appendReqs, j, committed) ==
    IF j > Len(appendReqs) THEN db
    ELSE LET r == appendReqs[j]
         IN  IF channelDbIndex(r.ch) \in committed
             THEN WriteReqs([p |-> PutRows(db.p, r.ch, r.Messages),
                             ix |-> PutIndex(db.ix, r.ch, r.Messages),
                             ix2 |-> PutSecondIndex(db.ix2, r.ch, r.Messages),
                             last |-> [db.last EXCEPT ![r.ch] = LastSeqOf(@, r.Messages)]],
                            appendReqs, j + 1, committed)
             ELSE WriteReqs(db, appendReqs, j + 1, committed)

\* AppendMessagesBatch not looking at the errors of the shards
BatchErrOfCountOnly(failed, incFails) ==
    IF incFails THEN "ErrIncMessageCount" ELSE "nil"

\* the error AppendMessagesBatch returns: that of a shard, else that of IncMessageCount
BatchErr(failed, incFails) ==
    IF failed # {} THEN "ErrWrite"
    ELSE IF incFails THEN "ErrIncMessageCount" ELSE "nil"

\* AppendMessagesBatch(appendReqs): every shard of dbMap writes its own batch;
\* the shards of failed do not commit
AppendMessagesBatch(S, failed, incFails) ==
    LET appendReqs == BatchReqs(S)
        db == WriteReqs([p |-> primary, ix |-> messageIdIndex, ix2 |-> secondIndex,
                         last |-> lastMessageSeq],
                        appendReqs, 1, BatchShards(S) \ failed)
    IN  /\ S # {}
        /\ failed \subseteq BatchShards(S)
        /\ \A c \in S : lastMessageSeq[c] + 1 <= MaxSeq
        /\ nextMessageId + Cardinality(S) - 1 <= MaxMessages
        /\ nextMessageId' = IF BatchShards(S) \subseteq failed THEN nextMessageId
                            ELSE nextMessageId + Cardinality(S)
        /\ dbErr' = BatchErr(failed, incFails)
        /\ primary' = db.p
        /\ messageIdIndex' = db.ix
        /\ secondIndex' = db.ix2
        /\ lastMessageSeq' = db.last
        /\ UNCHANGED electionVars

\* a DeleteRange that keeps the row at its lower bound
DeleteRangeAfter(p, c, from) ==
    [p EXCEPT ![c] =
        LET old == p[c]
        IN  [s \in {x \in DOMAIN old : ~(from < x /\ x < MaxUint64)} |-> old[s]]]

\* DeleteRange(key(c, from), key(c, math.MaxUint64)): the rows that stay
DeleteRange(p, c, from) ==
    [p EXCEPT ![c] =
        LET old == p[c]
        IN  [s \in {x \in DOMAIN old : ~(from <= x /\ x < MaxUint64)} |-> old[s]]]

\* how a call of TruncateLogTo with messageSeq > 0 ends: it returns nil, the
\* error of the DeleteRange of line 382 or an error of the batch of lines 386-398
TruncateEnds == {"nil", "DeleteRangeFails", "BatchFails"}

\* TruncateLogTo(channelId, channelType, messageSeq): the DeleteRange of line 382
\* goes to the db at once, the batch of lines 386-398 follows
TruncateLogTo(c, messageSeq, end) ==
    /\ dbErr' = IF messageSeq = 0 THEN "ErrInvalidSeq"
                ELSE IF end = "nil" THEN "nil" ELSE "ErrWrite"
    /\ IF messageSeq = 0 \/ end = "DeleteRangeFails"
       THEN UNCHANGED <<primary, lastMessageSeq>>
       ELSE /\ primary' = DeleteRange(primary, c, messageSeq)
            /\ IF end = "nil"
               THEN lastMessageSeq' = [lastMessageSeq EXCEPT ![c] = U64Sub(messageSeq, 1)]
               ELSE UNCHANGED lastMessageSeq
    /\ UNCHANGED <<messageIdIndex, secondIndex, nextMessageId, electionVars>>

\* SetChannelLastMessageSeq(channelId, channelType, seq): written to the db at once
SetChannelLastMessageSeq(c, seq, err) ==
    /\ dbErr' = err
    /\ IF err = "nil"
       THEN lastMessageSeq' = [lastMessageSeq EXCEPT ![c] = seq]
       ELSE UNCHANGED lastMessageSeq
    /\ UNCHANGED <<primary, messageIdIndex, secondIndex, nextMessageId, electionVars>>

\* every variable of the module
vars == <<electionVars, dbVars>>

(***************************************************************************)
(* State after newChannelElectionManager and start().                      *)
(***************************************************************************)
NoPend == [id |-> 0, req |-> NoReq, R |-> <<>>, resp |-> NoResp, sel |-> FALSE]

\* a round handed to the pool: the closure holds the slice header (len n) only
NewTask(n) ==
    [n |-> n, pc |-> "start", i |-> 1, err |-> FALSE,
     batch |-> <<>>, st |-> [m \in Nodes |-> "none"],
     infos |-> [m \in Nodes |-> <<>>], rpcs |-> [m \in Nodes |-> 0],
     logReqs |-> [m \in Nodes |-> <<>>], pend |-> NoPend]

Init ==
    /\ stopped = FALSE
    /\ electionC = <<>>
    /\ reqs = <<>>
    /\ reader = <<>>
    /\ resultC = <<>>
    /\ resultCap \in ResultCCaps
    /\ loop = [pc |-> "wait", reqLen |-> 0, len |-> 0]
    /\ buf = [k \in 1..MaxChannelElectionBatchLen |-> 0]
    /\ tasks = <<>>
    /\ call = "none"
    /\ rejected = {}
    /\ StoreInit

(***************************************************************************)
(* stop() and addElectionReq.                                              *)
(***************************************************************************)
\* stop(): stopper.Stop() closes the ShouldStop channel
Stop ==
    /\ ~stopped
    /\ stopped' = TRUE
    /\ UNCHANGED <<electionC, reqs, reader, resultC, resultCap, loop, buf, tasks, call, rejected, dbVars>>

\* a queue that takes one request more than its capacity
ChanFullOffByOne(q) == Len(q) > ElectionQueueCap

\* a send on electionC would block
ChanFull(q) == Len(q) >= ElectionQueueCap

\* the cases of the select of addElectionReq that can be taken: a ready case is
\* chosen at random, default only when no other case is ready
AddCases(q, stop) ==
    (IF ChanFull(q) THEN {} ELSE {"send"})
    \cup (IF stop THEN {"stop"} ELSE {})
    \cup (IF ChanFull(q) /\ ~stop THEN {"default"} ELSE {})

\* addElectionReq(req); rd says whether the caller then waits on req.resultC
addElectionReq(cfg, rd) ==
    \E c \in AddCases(electionC, stopped) :
        /\ call' = CASE c = "send" -> "nil"
                      [] c = "stop" -> "ErrStopped"
                      [] c = "default" -> "ErrChannelElectionCIsFull"
        /\ IF c = "send"
           THEN /\ Len(reqs) < MaxReqs
                /\ electionC' = Append(electionC, Len(reqs) + 1)
                /\ reqs' = Append(reqs, ElectionReq(cfg))
                /\ reader' = Append(reader, [st |-> rd, resp |-> NoResp])
                /\ resultC' = Append(resultC, 0)
           ELSE UNCHANGED <<electionC, reqs, reader, resultC>>
        /\ UNCHANGED <<stopped, resultCap, loop, buf, tasks, rejected, dbVars>>

(***************************************************************************)
(* The coordinator loop.                                                   *)
(***************************************************************************)
\* req := <-c.electionC; reqLen++; electionReqs = append(electionReqs, req)
LoopAppend ==
    /\ electionC # <<>>
    /\ buf' = [buf EXCEPT ![loop.len + 1] = Head(electionC)]
    /\ electionC' = Tail(electionC)
    /\ loop' = [pc |-> "drain", reqLen |-> loop.reqLen + 1, len |-> loop.len + 1]

\* line 49: the outer select receives a request
LoopRecv ==
    /\ loop.pc = "wait"
    /\ LoopAppend
    /\ UNCHANGED <<stopped, reqs, reader, resultC, resultCap, tasks, call, rejected, dbVars>>

\* line 81: the outer select sees the stop signal
LoopStop ==
    /\ loop.pc = "wait"
    /\ stopped
    /\ loop' = [loop EXCEPT !.pc = "exit"]
    /\ UNCHANGED <<stopped, electionC, reqs, reader, resultC, resultCap, buf, tasks, call, rejected, dbVars>>

\* the condition of the inner for of line 54 (done is false on entry)
DrainMore(reqLen) == reqLen < MaxChannelElectionBatchLen

\* line 56: the inner select receives a further request
LoopDrainRecv ==
    /\ loop.pc = "drain"
    /\ DrainMore(loop.reqLen)
    /\ LoopAppend
    /\ UNCHANGED <<stopped, reqs, reader, resultC, resultCap, tasks, call, rejected, dbVars>>

\* line 59: the inner select sees the stop signal and the loop returns
LoopDrainStop ==
    /\ loop.pc = "drain"
    /\ DrainMore(loop.reqLen)
    /\ stopped
    /\ loop' = [loop EXCEPT !.pc = "exit"]
    /\ UNCHANGED <<stopped, electionC, reqs, reader, resultC, resultCap, buf, tasks, call, rejected, dbVars>>

\* line 61 (default: nothing is ready) or the for condition fails
LoopDrainDone ==
    /\ loop.pc = "drain"
    /\ \/ ~DrainMore(loop.reqLen)
       \/ electionC = <<>> /\ ~stopped
    /\ loop' = [loop EXCEPT !.pc = "submit"]
    /\ UNCHANGED <<stopped, electionC, reqs, reader, resultC, resultCap, buf, tasks, call, rejected, dbVars>>

\* lines 71-79: Submit hands the closure to a free worker;
\* electionReqs = electionReqs[:0] keeps the backing array
LoopSubmit ==
    /\ loop.pc = "submit"
    /\ Len(tasks) < ChannelElectionPoolSize
    /\ tasks' = Append(tasks, NewTask(loop.len))
    /\ loop' = [loop EXCEPT !.pc = "wait", !.len = 0]
    /\ UNCHANGED <<stopped, electionC, reqs, reader, resultC, resultCap, buf, call, rejected, dbVars>>

\* lines 76-79: Submit returns an error (a non-blocking pool with no free
\* worker); the error is logged and the batch is forgotten
LoopSubmitFail ==
    /\ loop.pc = "submit"
    /\ Len(tasks) >= ChannelElectionPoolSize
    /\ rejected' = rejected \cup {buf[k] : k \in 1..loop.len}
    /\ loop' = [loop EXCEPT !.pc = "wait", !.len = 0]
    /\ UNCHANGED <<stopped, electionC, reqs, reader, resultC, resultCap, buf, tasks, call, dbVars>>

(***************************************************************************)
(* One election round: election(reqs) on a pool worker.                    *)
(***************************************************************************)
\* the tasks without the k-th
DropTask(ts, k) == [j \in 1..(Len(ts) - 1) |-> IF j < k THEN ts[j] ELSE ts[j + 1]]

\* line 107: requestChannelLastLogInfos(reqs), reading the slice as it is now
TaskCollect(k) ==
    /\ tasks[k].pc = "start"
    /\ LET batch == [j \in 1..tasks[k].n |-> reqs[buf[j]]]
       IN  \E st \in [Nodes -> Statuses] :
             /\ StatusOk(batch, st)
             /\ \E lg \in LogStates, started \in SUBSET Dropped(st) :
                  LET failed == CollectFails(st)
                      rpcs == [n \in Nodes |-> IF n \in started THEN 1 ELSE RpcCalls(st[n])]
                  IN  tasks' = [tasks EXCEPT ![k] =
                          [@ EXCEPT !.pc = "elect", !.err = failed, !.batch = batch, !.st = st,
                                    !.rpcs = rpcs,
                                    !.logReqs = [n \in Nodes |->
                                       IF rpcs[n] = 0 THEN <<>>
                                       ELSE ChannelLastLogInfoReqs(ReplicaReqs(batch, n))],
                                    !.infos = [n \in Nodes |->
                                       IF failed THEN <<>> ELSE NodeInfos(batch, n, st[n], lg)]]]
    /\ UNCHANGED <<stopped, electionC, reqs, reader, resultC, resultCap, loop, buf, call, rejected, dbVars>>

\* one iteration of the range over reqs (line 110 or line 120): the request is
\* read from the slice and its response computed
TaskPick(k) ==
    /\ tasks[k].pc = "elect"
    /\ LET t == tasks[k]
           id == buf[t.i]
           req == reqs[id]
       IN  IF t.err
           THEN tasks' = [tasks EXCEPT ![k] =
                    [@ EXCEPT !.pc = "send",
                              !.pend = [id |-> id, req |-> req, R |-> <<>>,
                                        resp |-> ErrResp("ErrLocalRead"), sel |-> FALSE]]]
           ELSE \E ord \in Perms(InfoKeys(t.st)) :
                  LET lastInfoResps == LastInfoResps(req, t.infos, ord)
                  IN  tasks' = [tasks EXCEPT ![k] =
                          [@ EXCEPT !.pc = "send",
                                    !.pend = [id |-> id, req |-> req,
                                              R |-> LastInfoResps(req, t.infos, Ascending),
                                              resp |-> ElectionResp(req, lastInfoResps),
                                              sel |-> TRUE]]]
    /\ UNCHANGED <<stopped, electionC, reqs, reader, resultC, resultCap, loop, buf, call, rejected, dbVars>>

\* a send on the result channel of request id can proceed
CanSend(id) == reader[id].st = "waiting" \/ resultC[id] < resultCap

\* the task after its send: next iteration, or the round is over
AfterSend(k) ==
    IF tasks[k].i >= tasks[k].n
    THEN DropTask(tasks, k)
    ELSE [tasks EXCEPT ![k] = [@ EXCEPT !.pc = "elect", !.i = @ + 1, !.pend = NoPend]]

\* req.resultC <- resp: handed to the waiting requester, else buffered
TaskSend(k) ==
    /\ tasks[k].pc = "send"
    /\ LET p == tasks[k].pend
       IN  /\ CanSend(p.id)
           /\ IF reader[p.id].st = "waiting"
              THEN /\ reader' = [reader EXCEPT ![p.id] = [st |-> "served", resp |-> p.resp]]
                   /\ UNCHANGED resultC
              ELSE /\ resultC' = [resultC EXCEPT ![p.id] = @ + 1]
                   /\ UNCHANGED reader
    /\ tasks' = AfterSend(k)
    /\ UNCHANGED <<stopped, electionC, reqs, resultCap, loop, buf, call, rejected, dbVars>>

\* the send is one case of a select whose other case is <-c.stopper.ShouldStop()
Interruptible(pend) == pend.sel

\* case <-c.stopper.ShouldStop(): return
TaskAbort(k) ==
    /\ tasks[k].pc = "send"
    /\ Interruptible(tasks[k].pend)
    /\ stopped
    /\ tasks' = DropTask(tasks, k)
    /\ UNCHANGED <<stopped, electionC, reqs, reader, resultC, resultCap, loop, buf, call, rejected, dbVars>>

Next ==
    \/ Stop
    \/ \E cfg \in Cfgs, rd \in {"waiting", "absent"} : addElectionReq(cfg, rd)
    \/ LoopRecv
    \/ LoopStop
    \/ LoopDrainRecv
    \/ LoopDrainStop
    \/ LoopDrainDone
    \/ LoopSubmit
    \/ LoopSubmitFail
    \/ \E k \in 1..Len(tasks) : TaskCollect(k)
    \/ \E k \in 1..Len(tasks) : TaskPick(k)
    \/ \E k \in 1..Len(tasks) : TaskSend(k)
    \/ \E k \in 1..Len(tasks) : TaskAbort(k)

Spec == Init /\ [][Next]_vars

(***************************************************************************)
(* The coordinator loop on a queue filled beforehand: electionC (capacity   *)
(* 1000 in the code) holds up to MaxQueued requests when the loop starts,  *)
(* no request arrives later and stop() is not called.                      *)
(***************************************************************************)
LoopInit ==
    /\ stopped = FALSE
    /\ \E k \in 1..MaxQueued :
          /\ electionC = [j \in 1..k |-> j]
          /\ reqs = [j \in 1..k |-> ElectionReq(CfgA)]
          /\ reader = [j \in 1..k |-> [st |-> "waiting", resp |-> NoResp]]
          /\ resultC = [j \in 1..k |-> 0]
    /\ resultCap = 0
    /\ loop = [pc |-> "wait", reqLen |-> 0, len |-> 0]
    /\ buf = [k \in 1..MaxChannelElectionBatchLen |-> 0]
    /\ tasks = <<>>
    /\ call = "none"
    /\ rejected = {}
    /\ StoreInit

LoopNext ==
    \/ LoopRecv
    \/ LoopDrainRecv
    \/ LoopDrainDone
    \/ LoopSubmit
    \/ LoopSubmitFail
    \/ \E k \in 1..Len(tasks) : TaskCollect(k)
    \/ \E k \in 1..Len(tasks) : TaskPick(k)
    \/ \E k \in 1..Len(tasks) : TaskSend(k)

LoopSpec == LoopInit /\ [][LoopNext]_vars

(***************************************************************************)
(* One round on a batch that can hold two configs of one channel: the      *)
(* callers of addElectionReq pass the channel config they hold, and the    *)
(* replica list of a channel changes over time.                            *)
(***************************************************************************)
\* the config of ChanA after node 1 left its replica list
CfgA2 == [ChannelId |-> ChanA[1], ChannelType |-> ChanA[2], Replicas |-> <<2, 3>>,
          Term |-> 1, LeaderId |-> 2]
RoundCfgs == {CfgA, CfgA2, CfgB}

RoundInit ==
    /\ stopped = FALSE
    /\ \E k \in 1..MaxChannelElectionBatchLen :
          /\ electionC = [j \in 1..k |-> j]
          /\ \E cs \in [1..k -> RoundCfgs] : reqs = [j \in 1..k |-> ElectionReq(cs[j])]
          /\ reader = [j \in 1..k |-> [st |-> "waiting", resp |-> NoResp]]
          /\ resultC = [j \in 1..k |-> 0]
    /\ resultCap = 0
    /\ loop = [pc |-> "wait", reqLen |-> 0, len |-> 0]
    /\ buf = [k \in 1..MaxChannelElectionBatchLen |-> 0]
    /\ tasks = <<>>
    /\ call = "none"
    /\ rejected = {}
    /\ StoreInit

RoundNext ==
    \/ LoopRecv
    \/ LoopDrainRecv
    \/ LoopDrainDone
    \/ LoopSubmit
    \/ \E k \in 1..Len(tasks) : TaskCollect(k)
    \/ \E k \in 1..Len(tasks) : TaskPick(k)
    \/ \E k \in 1..Len(tasks) : TaskSend(k)

RoundSpec == RoundInit /\ [][RoundNext]_vars

(***************************************************************************)
(* The message log store as a system of its own: the calls in any order.   *)
(***************************************************************************)
DBInit == Init /\ resultCap = 0

DBNext ==
    \/ \E c \in DBChannels, n \in 0..MaxAppendLen, err \in AppendEnds :
           AppendMessages(c, n, err)
    \/ \E S \in SUBSET DBChannels, failed \in SUBSET Shards, incFails \in BOOLEAN :
           AppendMessagesBatch(S, failed, incFails)
    \/ \E c \in DBChannels, messageSeq \in 0..MaxTruncate, end \in TruncateEnds :
           TruncateLogTo(c, messageSeq, end)
    \/ \E c \in DBChannels, seq \in 0..MaxSeq, err \in {"nil", "ErrWrite"} :
           SetChannelLastMessageSeq(c, seq, err)

DBSpec == DBInit /\ [][DBNext]_vars

(***************************************************************************)
(* The calls on the log of one channel, ChX: what a range load of a        *)
(* channel returns depends on the rows and the last sequence of that       *)
(* channel alone.                                                          *)
(***************************************************************************)
ChannelNext ==
    \/ \E n \in 0..MaxAppendLen, err \in AppendEnds :
           AppendMessages(ChX, n, err)
    \/ \E failed \in SUBSET Shards, incFails \in BOOLEAN :
           AppendMessagesBatch({ChX}, failed, incFails)
    \/ \E messageSeq \in 0..MaxTruncate, end \in TruncateEnds :
           TruncateLogTo(ChX, messageSeq, end)
    \/ \E seq \in 0..MaxSeq, err \in {"nil", "ErrWrite"} :
           SetChannelLastMessageSeq(ChX, seq, err)

ChannelSpec == DBInit /\ [][ChannelNext]_vars

(***************************************************************************)
(* Properties.                                                             *)
(***************************************************************************)
\* the rounds that have computed a response and are sending it
Sending == {k \in 1..Len(tasks) : tasks[k].pc = "send"}

\* the rounds that are sending a response of the per-request election (lines 120-166)
Electing == {k \in Sending : tasks[k].pend.sel}

\* floor(ChannelMaxReplicaCount/2) + 1
Majority == (ChannelMaxReplicaCount \div 2) + 1

\* a witness that reports a non-empty log
NonZero(w) == w.Term > 0 \/ w.LogIndex > 0

\* C1 as stated: a response of the election is a success iff the number of
\* witnesses collected for the request's channel reaches the quorum
C1_QuorumIff ==
    \A k \in Electing :
        (tasks[k].pend.resp.err = "nil") <=> (Len(tasks[k].pend.R) >= Majority)

\* C1 amended: the response is a success iff the witnesses collected for the
\* request's channel reach the quorum and one of them reports a non-empty log;
\* below the quorum it is NotEnoughReplicas, and at quorum with only empty logs
\* it is NoLeader
C1_Quorum ==
    \A k \in Electing :
        LET p == tasks[k].pend
            some == \E j \in 1..Len(p.R) : NonZero(p.R[j])
        IN  /\ (p.resp.err = "nil") <=> (Len(p.R) >= Majority /\ some)
            /\ Len(p.R) < Majority => p.resp = ErrResp("ErrNotEnoughReplicas")
            /\ (Len(p.R) >= Majority /\ ~some) => p.resp = ErrResp("ErrNoLeader")

\* a round sends a success for a request with a quorum of witnesses, one of
\* which reports an empty log
C1_Witness ==
    \E k \in Electing :
        /\ Len(tasks[k].pend.R) >= Majority
        /\ tasks[k].pend.resp.err = "nil"
        /\ \E j \in 1..Len(tasks[k].pend.R) : ~NonZero(tasks[k].pend.R[j])

\* the replicas of a request that the round did not find offline
NotOffline(t, req) == {n \in Range(req.cfg.Replicas) : t.st[n] # "offline"}

\* C2: when fewer than a majority of distinct replicas of the channel are
\* online in the round, the request is answered NotEnoughReplicas
C2_OfflineMajority ==
    \A k \in Electing :
        Cardinality(NotOffline(tasks[k], tasks[k].pend.req)) < Majority
            => tasks[k].pend.resp = ErrResp("ErrNotEnoughReplicas")

\* (Term, LogIndex) of a is lexicographically >= that of b
LexGE(a, b) == a.Term > b.Term \/ (a.Term = b.Term /\ a.LogIndex >= b.LogIndex)

\* C3: the leader of a successful response is a witness of the request's
\* channel whose (term, lastIndex) is >= that of every witness, whatever the
\* iteration order of the map
C3_LeaderRule ==
    \A k \in Electing :
        LET p == tasks[k].pend
        IN  p.resp.err = "nil" =>
                \E j \in 1..Len(p.R) :
                    /\ p.R[j].replicaId = p.resp.cfg.LeaderId
                    /\ \A i \in 1..Len(p.R) : LexGE(p.R[j], p.R[i])

\* a successful response where a witness with the higher term has the lower index
C3_Witness ==
    \E k \in Electing :
        LET p == tasks[k].pend
        IN  /\ p.resp.err = "nil"
            /\ \E i, j \in 1..Len(p.R) :
                  p.R[i].Term > p.R[j].Term /\ p.R[i].LogIndex < p.R[j].LogIndex

\* C4: a successful response carries the config of the request it answers
\* with the term incremented and the leader set to a witness's replica;
\* an error response carries no config
C4_TermAndFrame ==
    \A k \in Sending :
        LET p == tasks[k].pend
            in == reqs[p.id].cfg
        IN  IF p.resp.err = "nil"
            THEN /\ p.resp.cfg.ChannelId = in.ChannelId
                 /\ p.resp.cfg.ChannelType = in.ChannelType
                 /\ p.resp.cfg.Replicas = in.Replicas
                 /\ p.resp.cfg.Term = in.Term + 1
                 /\ p.resp.cfg.LeaderId # 0
                 /\ \E j \in 1..Len(p.R) : p.R[j].replicaId = p.resp.cfg.LeaderId
            ELSE p.resp.cfg = ZeroCfg

\* successful responses are being sent for both input configs
C4_Witness ==
    /\ \E k \in Sending : tasks[k].pend.resp.err = "nil" /\ tasks[k].pend.resp.cfg.Term = 2
    /\ \E id \in 1..Len(reqs) : reader[id].resp.err = "nil" /\ reader[id].resp.cfg.Term = 1

\* C5: two successful responses for one channel that name different leaders
\* carry different terms
C5_TermPerLeader ==
    \A a, b \in 1..Len(reqs) :
        (/\ reader[a].resp.err = "nil"
         /\ reader[b].resp.err = "nil"
         /\ reader[a].resp.cfg.ChannelId = reader[b].resp.cfg.ChannelId
         /\ reader[a].resp.cfg.ChannelType = reader[b].resp.cfg.ChannelType
         /\ reader[a].resp.cfg.LeaderId # reader[b].resp.cfg.LeaderId)
            => reader[a].resp.cfg.Term # reader[b].resp.cfg.Term

\* a step of addElectionReq that is no stuttering step
AddStep == call' # call \/ Len(reqs') # Len(reqs)

\* C6: while not stopping, addElectionReq on a full queue returns at once with
\* ErrChannelElectionCIsFull and leaves the queue as it is, and with space it
\* enqueues the request and returns nil
C6_EnqueuePolicy ==
    /\ [](~stopped /\ Len(electionC) >= ElectionQueueCap
            => ENABLED (\E cfg \in Cfgs : addElectionReq(cfg, "waiting")))
    /\ [][(~stopped /\ AddStep) =>
            IF Len(electionC) >= ElectionQueueCap
            THEN call' = "ErrChannelElectionCIsFull" /\ electionC' = electionC /\ reqs' = reqs
            ELSE /\ call' = "nil"
                 /\ Len(reqs') = Len(reqs) + 1
                 /\ electionC' = Append(electionC, Len(reqs'))]_vars

\* a call has failed on a full queue
C6_Witness ==
    /\ ~stopped
    /\ Len(electionC) = ElectionQueueCap
    /\ call = "ErrChannelElectionCIsFull"
    /\ Len(reqs) >= 1

\* C7: once the stop signal is raised, addElectionReq returns ErrStopped and
\* adds nothing to the queue
C7_StoppedEnqueue ==
    [][(stopped /\ AddStep) => (call' = "ErrStopped" /\ electionC' = electionC)]_vars

\* nothing is queued, being batched or being processed
Quiescent == electionC = <<>> /\ loop.pc = "wait" /\ tasks = <<>>

\* C8: while not stopped, once the coordinator has nothing left to do, no
\* accepted request whose batch the pool took is still waiting for its response
C8_NoDroppedWork ==
    (~stopped /\ Quiescent) =>
        \A id \in 1..Len(reqs) : id \notin rejected => reader[id].st # "waiting"

\* C9: once stopped, a round that is sending a response can go on: the send
\* can proceed or the round can return
C9_Interruptible ==
    stopped => \A k \in Sending : CanSend(tasks[k].pend.id) \/ ENABLED TaskAbort(k)

\* the replicas of the batch whose call failed or was not made
Absorbed(t) == {n \in Nodes : t.st[n] \in {"offline", "nohandle", "rpcerr"}}

\* the requests of the batch that list node n
Listing(t, n) == {j \in 1..Len(t.batch) : n \in Range(t.batch[j].cfg.Replicas)}

\* C10 as stated: with a remote replica absorbed, a request whose remaining
\* witnesses reach the quorum is answered with a new config
C10_AbsorbedThenConfig ==
    \A k \in Electing :
        (Absorbed(tasks[k]) # {} /\ Len(tasks[k].pend.R) >= Majority)
            => tasks[k].pend.resp.err = "nil"

\* C10 amended: a replica that is offline, has no handle or whose call fails
\* contributes nothing and the collection still returns, without error unless
\* a local read failed, the answers of every other replica; no node is called
\* twice; a request whose remaining witnesses reach the quorum is answered by
\* the leader rule: a new config, or NoLeader when all of them report empty logs
C10_Absorbed ==
    \A k \in 1..Len(tasks) :
        LET t == tasks[k]
        IN  t.pc # "start" =>
              /\ t.err => t.st[NodeId] = "readerr"
              /\ \A n \in Nodes : t.rpcs[n] <= 1
              /\ \A n \in Absorbed(t) : t.infos[n] = <<>>
              /\ ~t.err => \A n \in Nodes \ Absorbed(t) :
                    /\ Len(t.infos[n]) = Cardinality(Listing(t, n))
                    /\ \A j \in Listing(t, n) :
                          \E i \in 1..Len(t.infos[n]) :
                              /\ t.infos[n][i].ChannelId = t.batch[j].ch[1]
                              /\ t.infos[n][i].ChannelType = t.batch[j].ch[2]
              /\ (k \in Electing /\ Absorbed(t) # {} /\ Len(t.pend.R) >= Majority) =>
                    IF \E j \in 1..Len(t.pend.R) : NonZero(t.pend.R[j])
                    THEN t.pend.resp.err = "nil"
                    ELSE t.pend.resp = ErrResp("ErrNoLeader")

\* a request gets a new config in a round where the call to a remote replica fails
C10_Witness ==
    \E k \in Electing :
        /\ tasks[k].pend.resp.err = "nil"
        /\ \E n \in Nodes : tasks[k].st[n] = "rpcerr"

\* C11: in a round whose witness collection failed on a local read, every
\* response sent is that error, without a config, and it goes to the request
\* of the batch the collection was made for
C11_LocalReadAborts ==
    \A k \in Sending :
        tasks[k].err =>
            /\ tasks[k].pend.resp = ErrResp("ErrLocalRead")
            /\ tasks[k].pend.req = tasks[k].batch[tasks[k].i]

(***************************************************************************)
(* Properties of the message log store.                                    *)
(***************************************************************************)
\* the highest number of a finite set of numbers, 0 for the empty set
MaxOf(S) == IF S = {} THEN 0 ELSE CHOOSE x \in S : \A y \in S : y <= x

\* a step in which AppendMessages or AppendMessagesBatch has committed messages
AppendStep == nextMessageId' # nextMessageId

\* GetChannelLastMessageSeq(c) is the highest messageSeq of channel c
LastSeqIsMax(c) == GetChannelLastMessageSeq(c) = MaxOf(DOMAIN primary[c])

\* C12: GetChannelLastMessageSeq is 0 for a channel nothing was appended to,
\* and a call of AppendMessages or AppendMessagesBatch whose messages the caller
\* numbers lastSeq+1, lastSeq+2, ... and that commits keeps it the highest
\* messageSeq appended to the channel
C12_LastSeqIsMax ==
    /\ StoreInit => \A c \in DBChannels : GetChannelLastMessageSeq(c) = 0
    /\ [][AppendStep => \A c \in DBChannels : LastSeqIsMax(c) => LastSeqIsMax(c)']_vars

\* both channels were appended to, one of them by a call with two messages
C12_Witness ==
    /\ dbErr = "nil"
    /\ \A c \in DBChannels : LastSeqIsMax(c)
    /\ \E c \in DBChannels : \E d \in DBChannels \ {c} :
          /\ Cardinality(DOMAIN primary[c]) >= MaxAppendLen
          /\ Cardinality(DOMAIN primary[d]) >= 1

\* C13 as stated: LoadMsg(C, s) and GetMessage(m.messageId) return the stored
\* message m of channel C with messageSeq s, equal in every field
C13_RoundTrip ==
    \A c \in DBChannels : \A s \in DOMAIN primary[c] :
        /\ LoadMsg(c, s) = [err |-> "nil", msg |-> primary[c][s]]
        /\ GetMessage(primary[c][s].MessageID) = [err |-> "nil", msg |-> primary[c][s]]

\* C14: for a channel whose stored messages are those with messageSeq 1..n,
\* LoadNextRangeMsgs(C, 1, 0, 0) returns n messages, the j-th being the message
\* appended with messageSeq j
C14_ScanComplete ==
    \A c \in DBChannels :
        LET n == Cardinality(DOMAIN primary[c])
            r == LoadNextRangeMsgs(c, 1, 0, 0)
        IN  (DOMAIN primary[c] = 1..n /\ GetChannelLastMessageSeq(c) >= n) =>
                /\ r.err = "nil"
                /\ Len(r.msgs) = n
                /\ \A j \in 1..n :
                      /\ r.msgs[j].MessageSeq = j
                      /\ r.msgs[j].MessageID = primary[c][j].MessageID
                      /\ r.msgs[j].Payload = primary[c][j].Payload

\* a channel holds the messages 1..MaxSeq and the scan returns them all
C14_Witness ==
    \E c \in DBChannels :
        /\ DOMAIN primary[c] = 1..MaxSeq
        /\ GetChannelLastMessageSeq(c) = MaxSeq
        /\ Len(LoadNextRangeMsgs(c, 1, 0, 0).msgs) = MaxSeq

\* the sequence numbers the loads are asked for
SeqArgs == (0..MaxSeqArg) \cup {MaxUint64}

\* what a load of the message s of channel c has to return by the stored rows:
\* the stored message without its header byte (the scan never reads the first
\* row of its range), or NotFound where no row is stored
StoredLoadIn(p, c, s) ==
    IF s \in DOMAIN p[c]
    THEN [err |-> "nil", msg |-> [p[c][s] EXCEPT !.Framer = 0]]
    ELSE [err |-> "ErrNotFound", msg |-> EmptyMessage]

StoredLoad(c, s) == StoredLoadIn(primary, c, s)

\* C15: a successful TruncateLogTo(C, k) with k >= 1 leaves LoadMsg(C, s)
\* NotFound for every s >= k, leaves what LoadMsg(C, s) returns for s < k as it
\* was, and leaves GetChannelLastMessageSeq(C) = k-1; TruncateLogTo(C, 0)
\* returns an error and changes nothing.  LoadMsg is a function of the stored
\* rows in every state (first conjunct), and the step is stated on that function
C15_TruncateContract ==
    /\ [](\A c \in DBChannels, s \in SeqArgs : LoadMsg(c, s) = StoredLoad(c, s))
    /\ [][\A c \in DBChannels :
          /\ \A k \in 1..MaxTruncate :
                (lastMessageSeq'[c] = k - 1 /\ TruncateLogTo(c, k, "nil")) =>
                    /\ dbErr' = "nil"
                    /\ GetChannelLastMessageSeq(c)' = k - 1
                    /\ \A s \in SeqArgs :
                          IF s >= k THEN StoredLoad(c, s)'.err = "ErrNotFound"
                          ELSE StoredLoad(c, s)' = StoredLoad(c, s)
          /\ (\E end \in TruncateEnds : TruncateLogTo(c, 0, end)) =>
                /\ dbErr' # "nil"
                /\ UNCHANGED <<primary, lastMessageSeq, messageIdIndex>>]_vars

\* a channel was truncated to 2: the message 1 is left, and the messageId index
\* still has the handle of a message 2
C15_Witness ==
    /\ dbErr = "nil"
    /\ \E c \in DBChannels :
          /\ GetChannelLastMessageSeq(c) = 1
          /\ DOMAIN primary[c] = {1}
          /\ \E id \in DOMAIN messageIdIndex[channelDbIndex(c)] :
                messageIdIndex[channelDbIndex(c)][id] = <<c, 2>>

\* C16: a call of TruncateLogTo(C, k) with k >= 1, however it ends, leaves
\* either both of its effects (the rows with messageSeq >= k deleted and
\* channelLastMessageSeq(C) = k-1) or none
C16_TruncateAtomic ==
    [][\A c \in DBChannels, k \in 1..MaxTruncate, end \in TruncateEnds :
          TruncateLogTo(c, k, end) =>
              \/ primary' = primary /\ lastMessageSeq' = lastMessageSeq
              \/ /\ primary' = DeleteRange(primary, c, k)
                 /\ GetChannelLastMessageSeq(c)' = k - 1]_vars

\* C17: AppendMessages(C, msgs) is one batch: when the call returns an error
\* none of its messages can be loaded, by sequence number or by messageId, and
\* channelLastMessageSeq(C) is as it was; when it returns nil every message of
\* the call is loadable and channelLastMessageSeq(C) is the number of the last
\* one.  LoadMsg is a function of the stored rows in every state (first
\* conjunct), and the step is stated on that function
C17_AppendAtomic ==
    /\ [](\A c \in DBChannels, s \in 1..MaxSeq : LoadMsg(c, s) = StoredLoad(c, s))
    /\ [][\A c \in DBChannels, n \in 0..MaxAppendLen, err \in AppendEnds :
            (nextMessageId' = (IF err = "nil" THEN nextMessageId + n ELSE nextMessageId)
                /\ AppendMessages(c, n, err)) =>
                LET msgs == CallerMsgs(c, n, nextMessageId)
                IN  IF err = "nil"
                    THEN /\ dbErr' = "nil"
                         /\ \A j \in 1..n :
                               /\ StoredLoadIn(primary', c, msgs[j].MessageSeq) =
                                      [err |-> "nil", msg |-> [msgs[j] EXCEPT !.Framer = 0]]
                               /\ messageIdIndex'[channelDbIndex(c)][msgs[j].MessageID] =
                                      <<c, msgs[j].MessageSeq>>
                         /\ n > 0 => lastMessageSeq'[c] = msgs[n].MessageSeq
                    ELSE /\ dbErr' # "nil"
                         /\ \A j \in 1..n :
                               /\ StoredLoadIn(primary', c, msgs[j].MessageSeq).msg.MessageID # msgs[j].MessageID
                               /\ \A id \in 1..MaxMessages :
                                     id = msgs[j].MessageID => GetMessage(id)'.err = "ErrNotFound"
                         /\ lastMessageSeq'[c] = lastMessageSeq[c]]_vars

\* a call of AppendMessages has failed after two messages were stored in a
\* channel: they are the only ones there
C17_Witness ==
    /\ dbErr = "ErrIncMessageCount"
    /\ nextMessageId = 3
    /\ \E c \in DBChannels :
          /\ DOMAIN primary[c] = {1, 2}
          /\ lastMessageSeq[c] = 2
          /\ LoadMsg(c, 3).err = "ErrNotFound"
          /\ GetMessage(3).err = "ErrNotFound"

\* what a call of AppendMessagesBatch for the channels of S, with the shards of
\* failed not committing, has to leave
BatchOutcome(S, failed) ==
    LET appendReqs == BatchReqs(S)
    IN  /\ dbErr' = "nil" => failed = {}
        /\ failed # {} => dbErr' # "nil"
        /\ \A j \in 1..Len(appendReqs) :
              LET c == appendReqs[j].ch
                  m == appendReqs[j].Messages[1]
              IN  IF channelDbIndex(c) \in failed
                  THEN /\ primary'[c] = primary[c]
                       /\ lastMessageSeq'[c] = lastMessageSeq[c]
                       /\ \A sh \in Shards : m.MessageID \notin DOMAIN messageIdIndex'[sh]
                  ELSE /\ StoredLoadIn(primary', c, m.MessageSeq) =
                              [err |-> "nil", msg |-> [m EXCEPT !.Framer = 0]]
                       /\ lastMessageSeq'[c] = m.MessageSeq
                       /\ messageIdIndex'[channelDbIndex(c)][m.MessageID] = <<c, m.MessageSeq>>
        /\ \A c \in DBChannels \ S :
              primary'[c] = primary[c] /\ lastMessageSeq'[c] = lastMessageSeq[c]

\* C18: AppendMessagesBatch returns nil only if every shard of the call
\* committed and returns an error if the write of any shard fails; the channels
\* of a shard that committed have their message loadable and their last
\* sequence advanced, whatever the other shards did, and the channels of a
\* shard that failed, like the channels the call does not name, are as they
\* were.  LoadMsg is a function of the stored rows in every state (first
\* conjunct), and the step is stated on that function: for the calls in which
\* some shard commits (second conjunct) and for those in which none does (third)
C18_BatchAppend ==
    /\ [](\A c \in DBChannels, s \in 1..MaxSeq : StoredLoad(c, s) = LoadMsg(c, s))
    /\ [][nextMessageId' # nextMessageId =>
            \A S \in SUBSET DBChannels, failed \in SUBSET Shards, incFails \in BOOLEAN :
                AppendMessagesBatch(S, failed, incFails) => BatchOutcome(S, failed)]_vars
    /\ [][(nextMessageId' = nextMessageId /\ dbErr' # "nil") =>
            \A S \in SUBSET DBChannels, incFails \in BOOLEAN :
                AppendMessagesBatch(S, BatchShards(S), incFails) => BatchOutcome(S, BatchShards(S))]_vars

\* a call for both channels has failed in the shard of the second and committed
\* in the shard of the first
C18_Witness ==
    /\ dbErr = "ErrWrite"
    /\ nextMessageId = 3
    /\ DOMAIN primary[ChX] = {1} /\ lastMessageSeq[ChX] = 1
    /\ primary[ChY] = <<>> /\ lastMessageSeq[ChY] = 0
    /\ GetMessage(1).err = "nil"
    /\ \A sh \in Shards : 2 \notin DOMAIN messageIdIndex[sh]

\* the sequence numbers of the messages of a result, in its order
SeqsOf(msgs) == [j \in 1..Len(msgs) |-> msgs[j].MessageSeq]

\* the smaller of two numbers
Min(a, b) == IF a < b THEN a ELSE b

\* C19: LoadPrevRangeMsgs(C, startSeq, endSeq, limit) with limit >= 1 returns
\* an error and no message if startSeq = 0 or endSeq > startSeq; otherwise it
\* returns at most limit messages in ascending order, each with a messageSeq
\* in (endSeq, startSeq] and not above lastSeq(C), and when startSeq <=
\* lastSeq(C) they are exactly the min(limit, startSeq - endSeq) highest
\* sequence numbers up to startSeq
C19_PrevRange ==
    \A start \in SeqArgs, end \in SeqArgs, limit \in 1..MaxLimit :
        LET r == LoadPrevRangeMsgs(ChX, start, end, limit)
            seqs == SeqsOf(r.msgs)
            last == GetChannelLastMessageSeq(ChX)
            n == Min(limit, start - end)
        IN  IF start = 0 \/ end > start
            THEN r.err # "nil" /\ r.msgs = <<>>
            ELSE /\ r.err = "nil"
                 /\ Len(seqs) <= limit
                 /\ \A j \in 1..Len(seqs) :
                       /\ end < seqs[j] /\ seqs[j] <= start /\ seqs[j] <= last
                       /\ j > 1 => seqs[j - 1] < seqs[j]
                 /\ start <= last => seqs = [j \in 1..n |-> start - n + j]

\* the stored messages of channel c that a load of [start, end) has to see: end
\* = 0 stands for no upper end, and no message above lastSeq(c) counts
NextRangeSeqs(c, start, end) ==
    SortedSeq({s \in DOMAIN primary[c] :
                  /\ start <= s
                  /\ end = 0 \/ s < end
                  /\ s <= GetChannelLastMessageSeq(c)})

\* C20: LoadNextRangeMsgs(C, startSeq, endSeq, limit) returns, in ascending
\* order, the stored messages with messageSeq in [startSeq, endSeq), endSeq = 0
\* meaning to the end, never one with messageSeq > lastSeq(C); with limit > 0
\* it returns exactly the first min(limit, number of them) of them.  The
\* messages are compared on every field but the header byte
C20_NextRange ==
    \A start \in SeqArgs, end \in SeqArgs, limit \in 0..MaxLimit :
        LET r == LoadNextRangeMsgs(ChX, start, end, limit)
            all == NextRangeSeqs(ChX, start, end)
            n == IF limit = 0 THEN Len(all) ELSE Min(limit, Len(all))
        IN  /\ r.err = "nil"
            /\ SeqsOf(r.msgs) = SubSeq(all, 1, n)
            /\ \A j \in 1..Len(r.msgs) :
                  [r.msgs[j] EXCEPT !.Framer = 0] = StoredLoad(ChX, r.msgs[j].MessageSeq).msg

\* three messages are stored and the last sequence was set back to 2: a load
\* from 1 to the end returns the messages 1 and 2, and with limit 1 the message 1
C20_Witness ==
    /\ DOMAIN primary[ChX] = {1, 2, 3}
    /\ GetChannelLastMessageSeq(ChX) = 2
    /\ SeqsOf(LoadNextRangeMsgs(ChX, 1, 0, 0).msgs) = <<1, 2>>
    /\ SeqsOf(LoadNextRangeMsgs(ChX, 1, 0, 1).msgs) = <<1>>
    /\ SeqsOf(LoadNextRangeMsgs(ChX, 2, 3, MaxLimit).msgs) = <<2>>

\* the number of leading messages of the stored messages seqs of channel c
\* whose sizes together reach limitBytes, all of them when they never do
RECURSIVE SizePrefix(_, _, _, _, _)
SizePrefix(c, seqs, j, limitBytes, size) ==
    IF j > Len(seqs) THEN Len(seqs)
    ELSE LET size2 == size + MessageSize(primary[c][seqs[j]])
         IN  IF limitBytes # 0 /\ size2 >= limitBytes THEN j
             ELSE SizePrefix(c, seqs, j + 1, limitBytes, size2)

\* C21: LoadNextRangeMsgsForSize(C, start, end, limitBytes) returns, in
\* ascending order, the stored messages with messageSeq in [start, end), end =
\* 0 meaning to the end, never one with messageSeq > lastSeq(C): the shortest
\* prefix of them whose sizes together reach limitBytes, or all of them when
\* limitBytes is 0 or is not reached
C21_NextRangeForSize ==
    \A start \in SeqArgs, end \in SeqArgs, limitBytes \in 0..MaxLimitSize :
        LET r == LoadNextRangeMsgsForSize(ChX, start, end, limitBytes)
            all == NextRangeSeqs(ChX, start, end)
        IN  /\ r.err = "nil"
            /\ SeqsOf(r.msgs) = SubSeq(all, 1, SizePrefix(ChX, all, 1, limitBytes, 0))

\* C22: LoadLastMsgs(C, limit) with limit >= 1 returns without error, in
\* ascending order, exactly the min(limit, lastSeq(C)) messages of channel C
\* with the highest sequence numbers, lastSeq(C) the highest of them: none for
\* an empty channel, and none above k-1 after TruncateLogTo(C, k)
C22_LastMsgs ==
    \A limit \in 1..MaxLimit :
        LET r == LoadLastMsgs(ChX, limit)
            last == GetChannelLastMessageSeq(ChX)
            n == Min(limit, last)
        IN  /\ r.err = "nil"
            /\ SeqsOf(r.msgs) = [j \in 1..n |-> last - n + j]

\* C23: with no messageId in the request, every message SearchMessages returns
\* satisfies every predicate the request sets: channelId, channelType,
\* fromUid, payload substring and clientMsgNo, the last one also when fromUid
\* is set; and it returns at most Limit messages
C23_SearchFilters ==
    \A req \in SearchReqs :
        req.MessageId = 0 =>
            LET r == SearchMessages(req)
            IN  /\ r.err = "nil"
                /\ Len(r.msgs) <= req.Limit
                /\ \A j \in 1..Len(r.msgs) :
                      LET m == r.msgs[j]
                      IN  /\ req.ChannelId # "" => m.ChannelID = req.ChannelId
                          /\ req.ChannelType # 0 => m.ChannelType = req.ChannelType
                          /\ req.FromUid # "" => m.FromUID = req.FromUid
                          /\ req.Payload # "" => BytesContains(m.Payload, req.Payload)
                          /\ req.ClientMsgNo # "" => m.ClientMsgNo = req.ClientMsgNo

\* C24: every batch the loop forms, the first and the later ones, consists
\* of the min(k, MaxChannelElectionBatchLen) oldest requests in FIFO order, k
\* the number of requests in the queue when the loop woke, and none is longer
\* than MaxChannelElectionBatchLen.  No request arrives after the start, so k
\* is the length of the batch plus what is still queued when it is complete
C24_BatchFormation ==
    loop.pc = "submit" =>
        /\ loop.len <= MaxChannelElectionBatchLen
        /\ loop.len = Min(loop.len + Len(electionC), MaxChannelElectionBatchLen)
        /\ \A j \in 1..loop.len :
              /\ j > 1 => buf[j] = buf[j - 1] + 1
              /\ electionC # <<>> => buf[j] < Head(electionC)

\* the responses request id has been sent, handed over or buffered
Responses(id) == (IF reader[id].st = "served" THEN 1 ELSE 0) + resultC[id]

\* C25: a round processes the requests the loop dequeued for its batch and no
\* others, also while the loop assembles later batches: every accepted
\* request is processed by one round only and is sent at most one response,
\* the one a round is about to send counted
C25_BatchIsolation ==
    \A id \in 1..Len(reqs) :
        Responses(id) + Cardinality({k \in Sending : tasks[k].pend.id = id}) <= 1

\* the node answered in the round of task t with a witness for the channel of req
Contributed(t, req, n) ==
    /\ t.st[n] \in {"local", "ok"}
    /\ \E j \in 1..Len(t.infos[n]) : MatchesChannel(req, t.infos[n][j])

\* the response a round is about to send names a valid leader
ValidLeader(t) ==
    LET p == t.pend
        leader == p.resp.cfg.LeaderId
    IN  /\ p.resp.err = "nil" =>
              /\ leader # 0
              /\ leader \in Range(p.req.cfg.Replicas)
              /\ leader \in Nodes /\ Contributed(t, p.req, leader)
        /\ (/\ p.sel
            /\ Len(p.R) >= quorum
            /\ \A j \in 1..Len(p.R) : p.R[j].Term = 0 /\ p.R[j].LogIndex = 0)
               => p.resp = ErrResp("ErrNoLeader")

\* C26: every successful election response names a leader that is not 0, is
\* one of the replicas of the request's config, was online and contributed a
\* witness for the channel in the round; when the selected leader id is 0 the
\* response is NoLeader, never a config with leader 0
C26_LeaderValid == \A k \in Sending : ValidLeader(tasks[k])

\* the rounds that have collected their witnesses
Collected == {k \in 1..Len(tasks) : tasks[k].pc \in {"elect", "send"}}

\* one (ChannelId, ChannelType) entry for every request of the batch that lists
\* node n among its replicas, in the order of the batch
RECURSIVE EntriesFor(_, _)
EntriesFor(batch, n) ==
    IF batch = <<>> THEN <<>>
    ELSE (IF \E r \in 1..Len(Head(batch).cfg.Replicas) : Head(batch).cfg.Replicas[r] = n
          THEN <<[ChannelId |-> Head(batch).ch[1], ChannelType |-> Head(batch).ch[2]]>>
          ELSE <<>>) \o EntriesFor(Tail(batch), n)

\* the channels of a sequence of answers
ChannelsOf(answers) ==
    [j \in 1..Len(answers) |->
        [ChannelId |-> answers[j].ChannelId, ChannelType |-> answers[j].ChannelType]]

\* C27: in one witness-collection round every node receives at most one
\* requestChannelLastLogInfo call; a call carries one entry for every request
\* of the batch that lists the node, and goes to a remote node; an offline
\* replica and the local node receive no call, and the local node answers
\* every request that lists it from the local store
C27_FanOut ==
    \A k \in Collected :
        LET t == tasks[k]
        IN  \A n \in Nodes :
              /\ t.rpcs[n] <= 1
              /\ t.rpcs[n] = 1 => /\ n # NodeId
                                  /\ t.logReqs[n] # <<>>
                                  /\ t.logReqs[n] = EntriesFor(t.batch, n)
              /\ (n = NodeId \/ t.st[n] = "offline") => t.rpcs[n] = 0
              /\ t.st[n] = "ok" => ChannelsOf(t.infos[n]) = EntriesFor(t.batch, n)
              /\ t.st[n] = "local" => /\ n = NodeId
                                      /\ ChannelsOf(t.infos[n]) = EntriesFor(t.batch, n)

\* a round of two requests: the local node answered both from its store, one
\* remote node got one call with two entries, the other replica was offline
C27_Witness ==
    \E k \in Collected :
        /\ Len(tasks[k].batch) = 2
        /\ tasks[k].st[NodeId] = "local" /\ Len(tasks[k].infos[NodeId]) = 2
        /\ \E n, m \in Nodes :
              /\ tasks[k].rpcs[n] = 1 /\ Len(tasks[k].logReqs[n]) = 2
              /\ tasks[k].st[m] = "offline"

\* the searches by fromUid alone or by clientMsgNo alone
IndexSearches ==
    {req \in SearchReqs :
        /\ req.MessageId = 0 /\ req.ChannelId = "" /\ req.ChannelType = 0 /\ req.Payload = ""
        /\ (req.FromUid = "") # (req.ClientMsgNo = "")}

\* C28: a search by fromUid or by clientMsgNo returns only messages that are
\* stored now, also after truncations and later appends at the same seqs:
\* no blank message, no truncated message, and no message whose indexed field
\* differs from the value searched for
C28_SearchStored ==
    \A req \in IndexSearches :
        LET r == SearchMessages(req)
        IN  \A j \in 1..Len(r.msgs) :
              LET m == r.msgs[j]
                  c == <<m.ChannelID, m.ChannelType>>
              IN  /\ ~IsEmptyMessage(m)
                  /\ c \in DBChannels
                  /\ StoredLoad(c, m.MessageSeq) = [err |-> "nil", msg |-> [m EXCEPT !.Framer = 0]]
                  /\ req.FromUid # "" => m.FromUID = req.FromUid
                  /\ req.ClientMsgNo # "" => m.ClientMsgNo = req.ClientMsgNo

====
